---------------------------- MODULE Spec2Model ----------------------------
(***************************************************************************)
(* A model of blink.c, the ThingM blink(1) command line utility: the       *)
(* parsers parse_color and parse_duration, and main, which checks the      *)
(* command line, fills the 9-byte report and writes it to standard output. *)
(*                                                                         *)
(* A C string is a sequence of one-character strings; the terminating      *)
(* '\0' is the position after the last element.  The positional arguments  *)
(* are the arguments that getopt leaves at argv[optind..argc-1].           *)
(***************************************************************************)
EXTENDS Integers, Sequences, FiniteSets, TLC

(***************************************************************************)
(* Bounds of the model.                                                    *)
(***************************************************************************)
MaxLen == 4          \* longest enumerated duration token
MaxColorLen == 6     \* longest enumerated color token
MaxArgs == 3         \* most arguments after the command letter

(***************************************************************************)
(* Program constants.                                                      *)
(***************************************************************************)
MSG_SIZE == 9
DURATION_MAX == 65535

INT_MAX == (2^30 - 1) * 2 + 1
INT_MIN == -INT_MAX - 1

(***************************************************************************)
(* Characters and C strings.                                               *)
(***************************************************************************)
NUL == ""

Whitespace == {" ", "\t", "\n", "\r", "\f"}

DigitSeq == <<"0", "1", "2", "3", "4", "5", "6", "7", "8", "9">>
LowerSeq == <<"a", "b", "c", "d", "e", "f", "g", "h", "i", "j", "k", "l", "m",
              "n", "o", "p", "q", "r", "s", "t", "u", "v", "w", "x", "y", "z">>
UpperSeq == <<"A", "B", "C", "D", "E", "F", "G", "H", "I", "J", "K", "L", "M",
              "N", "O", "P", "Q", "R", "S", "T", "U", "V", "W", "X", "Y", "Z">>

Range(f) == {f[i] : i \in DOMAIN f}

Digits == Range(DigitSeq)
Lowers == Range(LowerSeq)
Uppers == Range(UpperSeq)

tolower(c) ==
    IF c \in Uppers
    THEN LowerSeq[CHOOSE i \in DOMAIN UpperSeq : UpperSeq[i] = c]
    ELSE c

HexLetters == {"a", "b", "c", "d", "e", "f"}
XDigits == Digits \cup HexLetters \cup {"A", "B", "C", "D", "E", "F"}

DigitVal(c) == (CHOOSE i \in DOMAIN DigitSeq : DigitSeq[i] = c) - 1

XDigitVal(c) ==
    IF c \in Digits
    THEN DigitVal(c)
    ELSE 9 + (CHOOSE i \in 1..6 : LowerSeq[i] = tolower(c))

\* s[i] of a C string, the terminator included.
At(s, i) == IF i \in 1..Len(s) THEN s[i] ELSE NUL

\* The string that starts at position i of s.
Tail_(s, i) == SubSeq(s, i, Len(s))

\* The first position at or after i whose character is not in set.
RECURSIVE Span(_, _, _)
Span(s, i, set) == IF At(s, i) \in set THEN Span(s, i + 1, set) ELSE i

\* Whether the characters of word follow at position i, letter case ignored.
RECURSIVE MatchesAt(_, _, _)
MatchesAt(s, i, word) ==
    \/ word = <<>>
    \/ /\ tolower(At(s, i)) = Head(word)
       /\ MatchesAt(s, i + 1, Tail(word))

MIN(a, b) == IF a < b THEN a ELSE b
MAX(a, b) == IF a > b THEN a ELSE b
\* A faulty CLAMP that forgets the floor; C8 depends on the floor.
CLAMP_NoFloor(val, min, max) == MIN(max, val)

CLAMP(val, min, max) == MAX(min, MIN(max, val))

(***************************************************************************)
(* atoi.  A value that an int cannot hold is undefined behaviour: the      *)
(* C library may return any int (glibc returns the low 32 bits of strtol's *)
(* long, others saturate or wrap).  The result is the set of outcomes,    *)
(* one int of each kind main tells apart: negative, zero, a position of    *)
(* the pattern, and above every position.                                  *)
(***************************************************************************)
AtoiOverflow == {INT_MIN, 0, 5, INT_MAX}

\* The value of the decimal digits s[i..j-1]; -1 once it exceeds INT_MAX.
RECURSIVE DecValue(_, _, _, _)
DecValue(s, i, j, acc) ==
    IF i >= j THEN acc
    ELSE IF acc = -1 \/ acc > (INT_MAX - DigitVal(s[i])) \div 10 THEN -1
    ELSE DecValue(s, i + 1, j, acc * 10 + DigitVal(s[i]))

atoi(s) ==
    LET start == Span(s, 1, Whitespace)
        neg == At(s, start) = "-"
        first == IF At(s, start) \in {"+", "-"} THEN start + 1 ELSE start
        last == Span(s, first, Digits)
        v == DecValue(s, first, last, 0)
    IN  IF v = -1 THEN AtoiOverflow
        ELSE {IF neg THEN -v ELSE v}

(***************************************************************************)
(* Color parsing.                                                          *)
(***************************************************************************)
colors ==
    << [name |-> <<"b", "l", "u", "e">>,           value |-> 255],
       [name |-> <<"c", "y", "a", "n">>,           value |-> 65535],
       [name |-> <<"g", "r", "e", "e", "n">>,      value |-> 65280],
       [name |-> <<"p", "u", "r", "p", "l", "e">>, value |-> 16711935],
       [name |-> <<"r", "e", "d">>,                value |-> 16711680],
       [name |-> <<"w", "h", "i", "t", "e">>,      value |-> 16777215],
       [name |-> <<"y", "e", "l", "l", "o", "w">>, value |-> 16776960] >>

WHITE == 16777215    \* 0xFFFFFF, the largest color value

\* The value of the hexadecimal digits s[i..j-1], which strtoul keeps in an
\* unsigned long; here it is kept up to WHITE + 1, which stands for every
\* larger value: parse_color only compares the value with 0xFFFFFF.
RECURSIVE HexValue(_, _, _, _)
HexValue(s, i, j, acc) ==
    IF i >= j THEN acc
    ELSE HexValue(s, i + 1, j, MIN(WHITE + 1, acc * 16 + XDigitVal(s[i])))

\* strtoul(s, &end, 16): white space, a sign, "0x" before a digit, digits.
\* A negated value is its two's complement, which for a nonzero value of
\* fewer than 16 digits is above 0xFFFFFF.  Nothing converted: 0, end = s.
strtoul16(s) ==
    LET start == Span(s, 1, Whitespace)
        neg == At(s, start) = "-"
        signed == IF At(s, start) \in {"+", "-"} THEN start + 1 ELSE start
        first == IF /\ At(s, signed) = "0"
                    /\ tolower(At(s, signed + 1)) = "x"
                    /\ At(s, signed + 2) \in XDigits
                 THEN signed + 2 ELSE signed
        last == Span(s, first, XDigits)
        v == HexValue(s, first, last, 0)
    IN  IF last = first THEN [value |-> 0, end |-> 1]
        ELSE [value |-> IF neg /\ v # 0 THEN WHITE + 1 ELSE v, end |-> last]

\* A faulty parse_color that accepts any character after the digits; C10
\* depends on the test of *end.
parse_color_AnyEnd(color) ==
    IF \E i \in DOMAIN colors : colors[i].name = color
    THEN colors[CHOOSE i \in DOMAIN colors : colors[i].name = color].value
    ELSE LET r == strtoul16(color)
         IN  IF r.value > WHITE THEN -1
             ELSE IF At(color, 1) # NUL THEN r.value
             ELSE -1


parse_color(color) ==
    IF \E i \in DOMAIN colors : colors[i].name = color
    THEN colors[CHOOSE i \in DOMAIN colors : colors[i].name = color].value
    ELSE LET r == strtoul16(color)
         IN  IF r.value > WHITE THEN -1
             ELSE IF At(color, 1) # NUL /\ At(color, r.end) = NUL THEN r.value
             ELSE -1

\* R, G and B of an int in two's complement: a mask and a shift.
R(rgb) == (rgb \div 65536) % 256
G(rgb) == (rgb \div 256) % 256
B(rgb) == rgb % 256

(***************************************************************************)
(* IEEE 754 binary32, the float of parse_duration, computed in integers    *)
(* below 2^31.  (Expressions are evaluated in the precision of their type: *)
(* FLT_EVAL_METHOD is 0.)  A float is one of                               *)
(*   zero, inf, nan;                                                       *)
(*   fin:   m * 2^e with 2^23 <= m < 2^24 (the exponent is not bounded: a  *)
(*          value outside binary32's range stands for the infinity or the  *)
(*          subnormal it would be, which parse_duration treats alike);     *)
(*   big:   a magnitude of at least 2^31 whose digits are not kept;        *)
(*   large: a magnitude of at least 2^27, a big divided by 10;             *)
(*   tiny:  a nonzero magnitude below 1/8 whose digits are not kept.       *)
(* parse_duration compares a big, large or tiny value only with -1 and     *)
(* 65535, and converts to int only a big or tiny one.                      *)
(***************************************************************************)
Float(kind, neg) == [kind |-> kind, neg |-> neg, m |-> 0, e |-> 0]
Fin(neg, m, e) == [kind |-> "fin", neg |-> neg, m |-> m, e |-> e]

\* A token outside what the integers of the model can hold has no value.
Unsupported == CHOOSE f \in {} : TRUE

RECURSIVE BitLen(_)
BitLen(q) == IF q = 0 THEN 0 ELSE 1 + BitLen(q \div 2)

PowTen(n) == 10^n

\* (q + t) * 2^e rounded to nearest, ties to even, where 0 < q < 2^31 and
\* 0 < t < 1 if sticky, t = 0 otherwise (sticky only with q >= 2^25).
RoundNorm(neg, q, sticky, e) ==
    LET n == BitLen(q)
        sh == n - 24
    IN  IF sh <= 0 THEN Fin(neg, q * 2^(-sh), e + sh)
        ELSE LET m == q \div 2^sh
                 rem == q % 2^sh
                 half == 2^(sh - 1)
                 up == \/ rem > half
                       \/ rem = half /\ (sticky \/ m % 2 = 1)
                 mm == IF up THEN m + 1 ELSE m
             IN  IF mm = 2^24 THEN Fin(neg, 2^23, e + sh + 1)
                 ELSE Fin(neg, mm, e + sh)

\* Binary long division: the quotient q * 2^e of r0/den with at least 26
\* bits, and the remainder.
RECURSIVE DivBits(_, _, _, _)
DivBits(q, r, den, e) ==
    IF r = 0 \/ q >= 2^25 THEN [q |-> q, r |-> r, e |-> e]
    ELSE LET bit == IF 2 * r >= den THEN 1 ELSE 0
         IN  DivBits(2 * q + bit, 2 * r - den * bit, den, e - 1)

\* D / den correctly rounded, for den <= 10^9.
LongDiv(neg, D, den) ==
    LET d == DivBits(D \div den, D % den, den, 0)
    IN  RoundNorm(neg, d.q, d.r # 0, d.e)

RECURSIVE StripZeros(_, _)
StripZeros(D, x) ==
    IF x < 0 /\ D % 10 = 0 THEN StripZeros(D \div 10, x + 1)
    ELSE [D |-> D, x |-> x]

\* The float nearest to (D + t) * 10^x, where 0 < t < 1 if lost (nonzero
\* digits after the ninth significant one were dropped) and t = 0 otherwise.
\* With lost digits only a value of at least 2^31 is supported.
DecToFloat(neg, D0, x0, lost) ==
    LET z == StripZeros(D0, x0)
        D == z.D
        x == z.x
    IN  IF D0 = 0 THEN Float("zero", neg)
        ELSE IF x >= 0
        THEN IF x > 9 \/ D > INT_MAX \div PowTen(x) THEN Float("big", neg)
             ELSE IF lost THEN Unsupported
             ELSE RoundNorm(neg, D * PowTen(x), FALSE, 0)
        ELSE IF lost THEN Unsupported
        ELSE IF -x >= 10 /\ D < PowTen(MIN(-x, 12) - 3)
        THEN Float("tiny", neg)
        ELSE LongDiv(neg, D, PowTen(-x))

\* The decimal digits s[i..j-1] appended to the mantissa st: the first nine
\* significant digits are kept in D, the value is D * 10^x.
RECURSIVE Mantissa(_, _, _, _, _)
Mantissa(s, i, j, frac, st) ==
    IF i >= j THEN st
    ELSE Mantissa(s, i + 1, j, frac,
            IF st.D < PowTen(8)
            THEN [D |-> st.D * 10 + DigitVal(s[i]),
                  x |-> IF frac THEN st.x - 1 ELSE st.x,
                  lost |-> st.lost]
            ELSE [D |-> st.D,
                  x |-> IF frac THEN st.x ELSE st.x + 1,
                  lost |-> st.lost \/ s[i] # "0"])

ExpMax == 10000      \* an exponent is kept up to here

RECURSIVE ExpValue(_, _, _, _)
ExpValue(s, i, j, acc) ==
    IF i >= j THEN acc
    ELSE ExpValue(s, i + 1, j, MIN(ExpMax, acc * 10 + DigitVal(s[i])))

\* The exponent part at position p: e (or its letter), a sign, digits.
\* Without a digit there is no exponent part and nothing is consumed.
ExponentAt(s, p, letter) ==
    LET sp == IF At(s, p + 1) \in {"+", "-"} THEN p + 2 ELSE p + 1
        ee == Span(s, sp, Digits)
        v == ExpValue(s, sp, ee, 0)
    IN  IF tolower(At(s, p)) = letter /\ ee > sp
        THEN [E |-> IF At(s, p + 1) = "-" THEN -v ELSE v, end |-> ee]
        ELSE [E |-> 0, end |-> p]

\* A decimal floating constant at position p: digits, a point, digits,
\* with at least one digit, and an exponent part.
DecFloat(s, neg, p) ==
    LET ie == Span(s, p, Digits)
        dot == At(s, ie) = "."
        fe == IF dot THEN Span(s, ie + 1, Digits) ELSE ie
        nd == (ie - p) + (IF dot THEN fe - ie - 1 ELSE 0)
        ip == Mantissa(s, p, ie, FALSE, [D |-> 0, x |-> 0, lost |-> FALSE])
        mt == IF dot THEN Mantissa(s, ie + 1, fe, TRUE, ip) ELSE ip
        ex == ExponentAt(s, fe, "e")
    IN  IF nd = 0 THEN [value |-> Float("zero", FALSE), end |-> 1]
        ELSE [value |-> DecToFloat(neg, mt.D, mt.x + ex.E, mt.lost),
              end |-> ex.end]

HexExpMax == 200     \* a binary exponent is kept up to here

\* A hexadecimal floating constant, p after its "0x": hexadecimal digits,
\* a point, digits, and a binary exponent part.
HexFloat(s, neg, p) ==
    LET ie == Span(s, p, XDigits)
        dot == At(s, ie) = "."
        fe == IF dot THEN Span(s, ie + 1, XDigits) ELSE ie
        H == IF dot
             THEN HexValue(s, ie + 1, fe, HexValue(s, p, ie, 0))
             ELSE HexValue(s, p, ie, 0)
        ex == ExponentAt(s, fe, "p")
        e == ex.E - 4 * (IF dot THEN fe - ie - 1 ELSE 0)
    IN  [value |-> IF H = 0 THEN Float("zero", neg)
                   ELSE IF H > WHITE THEN Unsupported
                   ELSE IF e > HexExpMax THEN Float("big", neg)
                   ELSE IF e < -HexExpMax THEN Float("tiny", neg)
                   ELSE RoundNorm(neg, H, FALSE, e),
         end |-> ex.end]

AlNum == Digits \cup Lowers \cup Uppers \cup {"_"}

\* strtof(s, &end): white space, a sign, then "inf" or "infinity", "nan" or
\* "nan(...)", a hexadecimal or a decimal floating constant.  end is the
\* position of the first character not consumed; nothing converted: 0 and
\* end = s.
strtof(s) ==
    LET start == Span(s, 1, Whitespace)
        neg == At(s, start) = "-"
        p == IF At(s, start) \in {"+", "-"} THEN start + 1 ELSE start
        q == Span(s, p + 4, AlNum)
    IN  IF MatchesAt(s, p, <<"i", "n", "f">>)
        THEN [value |-> Float("inf", neg),
              end |-> IF MatchesAt(s, p + 3, <<"i", "n", "i", "t", "y">>)
                      THEN p + 8 ELSE p + 3]
        ELSE IF MatchesAt(s, p, <<"n", "a", "n">>)
        THEN [value |-> Float("nan", neg),
              end |-> IF At(s, p + 3) = "(" /\ At(s, q) = ")"
                      THEN q + 1 ELSE p + 3]
        ELSE IF /\ MatchesAt(s, p, <<"0", "x">>)
                /\ \/ At(s, p + 2) \in XDigits
                   \/ At(s, p + 2) = "." /\ At(s, p + 3) \in XDigits
        THEN HexFloat(s, neg, p + 2)
        ELSE DecFloat(s, neg, p)

\* An int as a float: the conversion of the operands -1, 100, 10, 65535.
IntToFloat(n) ==
    IF n = 0 THEN Float("zero", FALSE)
    ELSE RoundNorm(n < 0, IF n < 0 THEN -n ELSE n, FALSE, 0)

\* f * n and f / n for a small int n, correctly rounded.
FMul(f, n) ==
    IF f.kind = "fin" THEN RoundNorm(f.neg, f.m * n, FALSE, f.e)
    ELSE f

\* A faulty division that leaves the value as it is; C7 depends on the
\* division by 10.
FDiv_Identity(f, n) == f


FDiv(f, n) ==
    IF f.kind = "fin"
    THEN RoundNorm(f.neg, (f.m * 64) \div n, (f.m * 64) % n # 0, f.e - 6)
    ELSE IF f.kind = "big" THEN Float("large", f.neg)
    ELSE f

MagRank(f) ==
    CASE f.kind = "zero" -> 0
      [] f.kind = "tiny" -> 1
      [] f.kind = "fin" -> 2
      [] f.kind = "large" -> 3
      [] f.kind = "big" -> 4
      [] f.kind = "inf" -> 5

MagLess(a, b) ==
    IF a.kind = "fin" /\ b.kind = "fin"
    THEN a.e < b.e \/ (a.e = b.e /\ a.m < b.m)
    ELSE MagRank(a) < MagRank(b)

\* a < b; false when either is a NaN.
FLess(a, b) ==
    LET an == a.neg /\ a.kind # "zero"
        bn == b.neg /\ b.kind # "zero"
    IN  /\ a.kind # "nan"
        /\ b.kind # "nan"
        /\ IF an # bn THEN an
           ELSE IF an THEN MagLess(b, a)
           ELSE MagLess(a, b)

\* The macros on a float and an int, which is converted to float.
FMIN(a, b) == IF FLess(a, b) THEN a ELSE b
FMAX(a, b) == IF FLess(b, a) THEN a ELSE b
FCLAMP(val, min, max) == FMAX(IntToFloat(min), FMIN(IntToFloat(max), val))

\* (int) of a float truncates toward zero.  A NaN, an infinity or a value
\* outside int is undefined behaviour; the conversions in use return
\* INT_MIN (x86), saturate (ARM, RISC-V), and for a NaN return INT_MIN
\* (x86), 0 (ARM) or INT_MAX (RISC-V).
NaNToInt == {INT_MIN, 0, INT_MAX}
PosOverflowToInt == {INT_MIN, INT_MAX}
NegOverflowToInt == {INT_MIN}

FloatToInt(f) ==
    CASE f.kind = "nan" -> NaNToInt
      [] f.kind \in {"zero", "tiny"} -> {0}
      [] f.kind \in {"inf", "big"} ->
            IF f.neg THEN NegOverflowToInt ELSE PosOverflowToInt
      [] f.kind = "fin" ->
            IF f.e > 7
            THEN IF f.neg /\ f.m = 2^23 /\ f.e = 8 THEN {INT_MIN}
                 ELSE IF f.neg THEN NegOverflowToInt ELSE PosOverflowToInt
            ELSE LET ip == IF f.e >= 0 THEN f.m * 2^f.e
                           ELSE IF f.e <= -24 THEN 0
                           ELSE f.m \div 2^(-f.e)
                 IN  {IF f.neg THEN -ip ELSE ip}

(***************************************************************************)
(* Duration parsing.  The result is the set of values the call may return: *)
(* one value, unless a conversion to int is undefined.                     *)
(***************************************************************************)
parse_duration(duration) ==
    LET r == strtof(duration)
        value == r.value
        end == r.end
    IN  IF At(duration, 1) # NUL /\ At(duration, end) = NUL
        THEN {CLAMP(i, -1, DURATION_MAX) : i \in FloatToInt(value)}
        ELSE IF Tail_(duration, end) = <<"s">>
        THEN FloatToInt(FCLAMP(FMul(value, 100), -1, DURATION_MAX))
        ELSE IF Tail_(duration, end) = <<"m", "s">>
        THEN FloatToInt(FCLAMP(FDiv(value, 10), -1, DURATION_MAX))
        ELSE {-1}

(***************************************************************************)
(* main.                                                                   *)
(***************************************************************************)
commands ==
    << [cmd |-> "c", argc |-> 2, usage |-> "USAGE_FADE"],
       [cmd |-> "D", argc |-> 2, usage |-> "USAGE_SDOWN"],
       [cmd |-> "n", argc |-> 1, usage |-> "USAGE_SET"],
       [cmd |-> "p", argc |-> 2, usage |-> "USAGE_PLAY"],
       [cmd |-> "P", argc |-> 3, usage |-> "USAGE_PATT"] >>

\* The character code of a letter or a digit.
Ord(c) ==
    CASE c \in Lowers -> 96 + (CHOOSE i \in DOMAIN LowerSeq : LowerSeq[i] = c)
      [] c \in Uppers -> 64 + (CHOOSE i \in DOMAIN UpperSeq : UpperSeq[i] = c)
      [] c \in Digits -> 48 + DigitVal(c)

\* An int stored in a char of buf: its low 8 bits.
ToChar(x) == x % 256

VARIABLES
    pc,         \* where the run is: a place in main, or in a parser call
    opt,        \* what getopt finds: "none", "h", "c" or "?" (another option)
    argv,       \* argv[optind..argc-1] as getopt leaves it
    cmd,        \* the command letter
    argr,       \* the number of arguments that remain
    buf,        \* the report
    rgb, duration, play, position,
    calls,      \* the parsers called so far
    stdout,     \* what was written to standard output, in order
    stderr,     \* the messages written to standard error, in order
    status      \* the exit status

vars == <<pc, opt, argv, cmd, argr, buf, rgb, duration, play, position,
          calls, stdout, stderr, status>>

\* argv[optind + k] once the command letter is read.
Arg(k) == argv[k + 2]

\* char buf[MSG_SIZE] = { 1, 0, 0, 0, 0, 0, 0, 0, 0 } and the other locals,
\* which are not read before they are assigned.
Locals ==
    /\ cmd = NUL
    /\ argr = 0
    /\ buf = [i \in 0..MSG_SIZE - 1 |-> IF i = 0 THEN 1 ELSE 0]
    /\ rgb = 0
    /\ duration = 0
    /\ play = 0
    /\ position = 0
    /\ calls = {}
    /\ stdout = <<>>
    /\ stderr = <<>>
    /\ status = 0

Exit(code) ==
    /\ status' = code
    /\ pc' = "exit"

Error(msg, code) ==
    /\ stderr' = Append(stderr, msg)
    /\ Exit(code)

\* The option loop: -h and -c print and return 0, another option is an
\* error; without option the loop ends.
Getopt ==
    /\ pc = "getopt"
    /\ IF opt = "h" \/ opt = "c"
       THEN /\ stdout' = Append(stdout,
                    [kind |-> IF opt = "h" THEN "usage" ELSE "colors",
                     data |-> <<>>, ret |-> 0])
            /\ Exit(0)
            /\ UNCHANGED stderr
       ELSE IF opt = "?"
       THEN /\ Error("USAGE_OPTIONS", 1)
            /\ UNCHANGED stdout
       ELSE /\ pc' = "command"
            /\ UNCHANGED <<stdout, stderr, status>>
    /\ UNCHANGED <<opt, argv, cmd, argr, buf, rgb, duration, play, position,
                   calls>>

\* The command letter: one argument of exactly one character.
ReadCommand ==
    /\ pc = "command"
    /\ IF Len(argv) = 0 \/ Len(argv[1]) # 1
       THEN /\ argr' = Len(argv)
            /\ Error("Put colors!", 1)
            /\ UNCHANGED <<cmd, buf>>
       ELSE /\ argr' = Len(argv) - 1
            /\ cmd' = argv[1][1]
            /\ buf' = [buf EXCEPT ![1] = Ord(argv[1][1])]
            /\ pc' = "syntax"
            /\ UNCHANGED <<stderr, status>>
    /\ UNCHANGED <<opt, argv, rgb, duration, play, position, calls, stdout>>


\* A faulty check that rejects only too few arguments; C2 depends on the
\* test for inequality.
SyntaxError_TooFew(c, n) ==
    \E i \in DOMAIN commands : c = commands[i].cmd /\ n < commands[i].argc

\* The quick check of the commands' syntax.
SyntaxError(c, n) ==
    \E i \in DOMAIN commands : c = commands[i].cmd /\ n # commands[i].argc

UsageOf(c) ==
    commands[CHOOSE i \in DOMAIN commands : c = commands[i].cmd].usage

\* The case label that switch (cmd) jumps to.
Switch(c) ==
    IF c \in {"P", "c", "n", "p", "D"} THEN c ELSE "default"

CheckSyntax ==
    /\ pc = "syntax"
    /\ IF SyntaxError(cmd, argr)
       THEN Error(UsageOf(cmd), 1)
       ELSE /\ pc' = Switch(cmd)
            /\ UNCHANGED <<stderr, status>>
    /\ UNCHANGED <<opt, argv, cmd, argr, buf, rgb, duration, play, position,
                   calls, stdout>>

\* A faulty range check without the upper limit; C3 depends on it.
BadPosition_NoCeiling(p) == p < 0

BadPosition(p) == p < 0 \/ p > 11

\* case 'P': set pattern entry, then fall through.
CaseP ==
    /\ pc = "P"
    /\ calls' = calls \cup {"atoi"}
    /\ \E p \in atoi(Arg(2)) :
          /\ position' = p
          /\ IF BadPosition(p)
             THEN /\ Error("invalid position", 1)
                  /\ UNCHANGED buf
             ELSE /\ buf' = [buf EXCEPT ![7] = ToChar(p)]
                  /\ pc' = "c"
                  /\ UNCHANGED <<stderr, status>>
    /\ UNCHANGED <<opt, argv, cmd, argr, rgb, duration, play, stdout>>

\* The duration in two chars of buf, the high byte first.
SetDuration(b, hi, d) ==
    [b EXCEPT ![hi] = ToChar(d \div 256), ![hi + 1] = ToChar(d % 256)]

\* case 'c': fade to RGB color, then fall through.
CaseC ==
    /\ pc = "c"
    /\ calls' = calls \cup {"parse_duration"}
    /\ \E d \in parse_duration(Arg(1)) :
          /\ duration' = d
          /\ IF d < 0
             THEN /\ Error("invalid duration", 1)
                  /\ UNCHANGED buf
             ELSE /\ buf' = SetDuration(buf, 5, d)
                  /\ pc' = "n"
                  /\ UNCHANGED <<stderr, status>>
    /\ UNCHANGED <<opt, argv, cmd, argr, rgb, play, position, stdout>>

SetColor(b, c) ==
    [b EXCEPT ![2] = ToChar(R(c)), ![3] = ToChar(G(c)), ![4] = ToChar(B(c))]

\* case 'n': set RGB color now.
CaseN ==
    /\ pc = "n"
    /\ calls' = calls \cup {"parse_color"}
    /\ rgb' = parse_color(Arg(0))
    /\ buf' = SetColor(buf, parse_color(Arg(0)))
    /\ pc' = "write"
    /\ UNCHANGED <<opt, argv, cmd, argr, duration, play, position, stdout,
                   stderr, status>>

\* !!x
Truth(x) == IF x # 0 THEN 1 ELSE 0

\* case 'p': play/pause.
CasePlay ==
    /\ pc = "p"
    /\ calls' = calls \cup {"atoi"}
    /\ \E pl \in atoi(Arg(0)), p \in atoi(Arg(1)) :
          /\ play' = pl
          /\ position' = p
          /\ buf' = [buf EXCEPT ![2] = Truth(pl),
                                ![3] = ToChar(CLAMP(p, 0, 11))]
    /\ pc' = "write"
    /\ UNCHANGED <<opt, argv, cmd, argr, rgb, duration, stdout, stderr,
                   status>>

\* case 'D': serverdown mode.
CaseD ==
    /\ pc = "D"
    /\ calls' = calls \cup {"atoi", "parse_duration"}
    /\ \E pl \in atoi(Arg(0)), d \in parse_duration(Arg(1)) :
          /\ play' = pl
          /\ duration' = d
          /\ IF d < 0
             THEN /\ Error("invalid duration", 1)
                  /\ UNCHANGED buf
             ELSE /\ buf' = SetDuration([buf EXCEPT ![2] = Truth(pl)], 3, d)
                  /\ pc' = "write"
                  /\ UNCHANGED <<stderr, status>>
    /\ UNCHANGED <<opt, argv, cmd, argr, rgb, position, stdout>>

\* default: unknown command.
Default ==
    /\ pc = "default"
    /\ Error("unknown command", 1)
    /\ UNCHANGED <<opt, argv, cmd, argr, buf, rgb, duration, play, position,
                   calls, stdout>>

\* What write(STDOUT_FILENO, buf, MSG_SIZE) may return: an error, a short
\* count, the whole count.
WriteReturns == {-1, MSG_SIZE - 1, MSG_SIZE}

\* return write(STDOUT_FILENO, buf, MSG_SIZE) != MSG_SIZE ? 1 : 0
Write ==
    /\ pc = "write"
    /\ \E n \in WriteReturns :
          /\ stdout' = Append(stdout,
                          [kind |-> "report", data |-> buf, ret |-> n])
          /\ Exit(IF n # MSG_SIZE THEN 1 ELSE 0)
    /\ UNCHANGED <<opt, argv, cmd, argr, buf, rgb, duration, play, position,
                   calls, stderr>>

Next ==
    \/ Getopt
    \/ ReadCommand
    \/ CheckSyntax
    \/ CaseP
    \/ CaseC
    \/ CaseN
    \/ CasePlay
    \/ CaseD
    \/ Default
    \/ Write

(***************************************************************************)
(* The command lines of the model.                                         *)
(***************************************************************************)
ArgTokens ==
    { <<"r", "e", "d">>,
      <<>>,
      <<"1">>,
      <<"1", "2">>,
      <<"2", ".", "1", "s">>,
      <<"s">>,
      <<"9", "e", "9">>,
      <<"n", "a", "n", "s">>,
      <<"-", "1">>,
      <<"z", "z", "z">>,
      <<"2", "s">>,
      <<"9", "9", "9", "9", "9", "9", "9", "9", "9", "9", "9">> }

CmdTokens ==
    { <<"c">>, <<"D">>, <<"n">>, <<"p">>, <<"P">>, <<"x">>, <<"n", "n">> }

\* An option ends the run before the arguments are looked at: the runs
\* with an option are drawn with at most the command letter.
Init ==
    /\ pc = "getopt"
    /\ opt \in {"none", "h", "c", "?"}
    /\ \/ argv = <<>>
       \/ \E c \in CmdTokens, k \in 0..MaxArgs :
             /\ opt = "none" \/ k = 0
             /\ \E a \in [1..k -> ArgTokens] : argv = <<c>> \o a
    /\ Locals

Spec == Init /\ [][Next]_vars

(***************************************************************************)
(* parse_duration alone, on every token over DurationAlphabet up to MaxLen *)
(* characters and on the tokens of DurationExamples; argv[1] is the token. *)
(***************************************************************************)
DurationAlphabet == {"0", "1", "2", "9", ".", "-", "e", "s", "m"}

DurationExamples ==
    { <<"1", "0", "0", "0", "0", "0", "m", "s">>,
      <<"1", "0", "0", "0", "0", "0", "0", "m", "s">>,
      <<"5", "0", "0", "m", "s">>,
      <<"2", "0", "0", "0", "m", "s">>,
      <<"a", "b", "c">>,
      <<".", "5", "s">>,
      <<"6", "5", "5", ".", "3", "5", "s">>,
      <<"6", "5", "5", "3", "6">>,
      <<"3", "0", "0", "0", "0", "0", "0", "0", "0", "0">>,
      <<"n", "a", "n">>,
      <<"n", "a", "n", "s">>,
      <<"i", "n", "f">>,
      <<"i", "n", "f", "m", "s">>,
      <<"0", "x", "1", "0">>,
      <<" ", "5">>,
      <<"+", "5", "E", "1", "s">> }

InitDuration ==
    /\ pc = "parse_duration"
    /\ opt = "none"
    /\ \/ \E n \in 0..MaxLen :
             \E t \in [1..n -> DurationAlphabet] : argv = <<t>>
       \/ \E t \in DurationExamples : argv = <<t>>
    /\ Locals

ParseDuration ==
    /\ pc = "parse_duration"
    /\ calls' = calls \cup {"parse_duration"}
    /\ \E d \in parse_duration(argv[1]) : duration' = d
    /\ pc' = "returned"
    /\ UNCHANGED <<opt, argv, cmd, argr, buf, rgb, play, position, stdout,
                   stderr, status>>

NextDuration == ParseDuration

SpecDuration == InitDuration /\ [][NextDuration]_vars

(***************************************************************************)
(* The command n on every color token over ColorAlphabet up to MaxColorLen *)
(* characters, on the defined colors and on the tokens of ColorExamples.   *)
(***************************************************************************)
ColorAlphabet == {"0", "a", "F", "g"}

ColorExamples ==
    { <<"1", "0", "0", "0", "0", "0", "0">>,
      <<"0", "0", "f", "f", "f", "f", "f", "f">>,
      <<"f", "f", "f", "f", "f", "f", "f">>,
      <<"4", "5", "4", "5", "4", "5">>,
      <<"0", "x", "1", "0">>,
      <<"0", "x">>,
      <<" ", "f", "f">>,
      <<"+", "f", "f">>,
      <<"-", "0">>,
      <<"-", "1">>,
      <<"R", "e", "d">>,
      <<"r", "e", "d", "s">>,
      <<"z", "z", "z">> }

InitColor ==
    /\ pc = "getopt"
    /\ opt = "none"
    /\ \/ \E n \in 0..MaxColorLen :
             \E t \in [1..n -> ColorAlphabet] : argv = <<<<"n">>, t>>
       \/ \E i \in DOMAIN colors : argv = <<<<"n">>, colors[i].name>>
       \/ \E t \in ColorExamples : argv = <<<<"n">>, t>>
    /\ Locals

NextColor ==
    \/ Getopt
    \/ ReadCommand
    \/ CheckSyntax
    \/ CaseN
    \/ Write

SpecColor == InitColor /\ [][NextColor]_vars

(***************************************************************************)
(* The claims.  What a claim says of a run is stated on the run's input,   *)
(* argv, and on what the run leaves: status, stdout, stderr, and the       *)
(* values the parsers returned.                                            *)
(***************************************************************************)
IsReport(i) == stdout[i].kind = "report"
NoReport == \A i \in DOMAIN stdout : ~IsReport(i)
OneReport == Cardinality({i \in DOMAIN stdout : IsReport(i)}) = 1
Report == stdout[CHOOSE i \in DOMAIN stdout : IsReport(i)]

\* A run without option that has ended, of the command letter with n
\* arguments.
Ran(letter, n) ==
    /\ pc = "exit"
    /\ opt = "none"
    /\ Len(argv) = n + 1
    /\ argv[1] = <<letter>>

\* The arity and the usage text the claims declare for each command.
DeclaredArity ==
    ("c" :> 2) @@ ("D" :> 2) @@ ("n" :> 1) @@ ("p" :> 2) @@ ("P" :> 3)
DeclaredUsage ==
    ("c" :> "USAGE_FADE") @@ ("D" :> "USAGE_SDOWN") @@ ("n" :> "USAGE_SET")
    @@ ("p" :> "USAGE_PLAY") @@ ("P" :> "USAGE_PATT")

\* C1: for n, c and P with the right number of arguments, a color token
\* for which parse_color returns -1 makes the run exit 1 without a report.
C1_InvalidColorFails ==
    \A letter \in {"n", "c", "P"} :
        Ran(letter, DeclaredArity[letter]) /\ parse_color(argv[2]) = -1
            => status = 1 /\ NoReport

\* C2: usage errors come before any value parsing.  A known command with
\* a number of arguments other than its arity exits 1 with its usage text,
\* no report and no parser called; an unknown letter exits 1 with no
\* report, whatever the number of arguments.
C2_UsageErrorsFirst ==
    pc = "exit" /\ opt = "none" /\ Len(argv) >= 1 /\ Len(argv[1]) = 1 =>
        LET letter == argv[1][1]
            n == Len(argv) - 1
        IN  /\ letter \in DOMAIN DeclaredArity /\ n # DeclaredArity[letter]
                => /\ status = 1
                   /\ NoReport
                   /\ calls = {}
                   /\ stderr = <<DeclaredUsage[letter]>>
            /\ letter \notin DOMAIN DeclaredArity
                => status = 1 /\ NoReport /\ calls = {}

\* blink c red: c with one argument has failed.
C2_Witness ==
    /\ Ran("c", 1)
    /\ argv[2] = <<"r", "e", "d">>
    /\ status = 1

\* C3: every report is one write of exactly 9 bytes, byte 0 = 1, byte 1
\* the command character, one of c, D, n, p, P (99, 68, 110, 112, 80),
\* byte 8 = 0, byte 7 = 0 unless the command is P (then in 0..11), and
\* bytes 5-6 = 0 unless the command is c or P.
C3_ReportLayout ==
    /\ Cardinality({i \in DOMAIN stdout : IsReport(i)}) <= 1
    /\ \A i \in DOMAIN stdout : IsReport(i) =>
          LET b == stdout[i].data
          IN  /\ DOMAIN b = 0..8
              /\ \A k \in DOMAIN b : b[k] \in 0..255
              /\ b[0] = 1
              /\ b[1] \in {99, 68, 110, 112, 80}
              /\ b[1] = Ord(argv[1][1])
              /\ b[8] = 0
              /\ IF b[1] = 80 THEN b[7] \in 0..11 ELSE b[7] = 0
              /\ b[1] \notin {99, 80} => b[5] = 0 /\ b[6] = 0

\* A report of the command P with a position and a duration.
C3_Witness ==
    /\ Ran("P", 3)
    /\ OneReport
    /\ Report.data[7] = 1
    /\ Report.data[6] = 209

\* C4: for P with three arguments, a position below 0 or above 11 exits 1
\* without a report, whatever the color and the duration are; otherwise,
\* when the run succeeds, byte 7 is the position, bytes 5-6 the duration
\* and bytes 2-4 the channels of the color.
C4_PatternEntry ==
    Ran("P", 3) =>
        /\ position < 0 \/ position > 11 => status = 1 /\ NoReport
        /\ position \in 0..11 /\ status = 0 =>
              /\ OneReport
              /\ Report.data[7] = position
              /\ Report.data[5] * 256 + Report.data[6] = duration
              /\ Report.data[2] * 65536 + Report.data[3] * 256 + Report.data[4]
                    = rgb

\* C5: for c, P and D a report is written only if parse_duration returned
\* d in 0..65535, and then the duration field is the big-endian split of
\* d; a negative d exits 1 without a report.
C5_SentinelNeverEncoded ==
    pc = "exit" /\ cmd \in {"c", "P", "D"} /\ "parse_duration" \in calls =>
        /\ ~NoReport =>
              LET b == Report.data
              IN  /\ duration \in 0..65535
                  /\ duration = IF cmd = "D" THEN b[3] * 256 + b[4]
                                ELSE b[5] * 256 + b[6]
        /\ duration < 0 => status = 1 /\ NoReport

\* C6: a duration token of which the numeric parse consumes no character
\* makes parse_duration return -1, whatever the token is.
C6_NoNumericPrefixFails ==
    pc = "returned" /\ strtof(argv[1]).end = 1 => duration = -1

\* C7 as stated: parse_duration("100000ms") is the ceiling 65535.
C7_Original ==
    pc = "returned" /\ argv[1] = <<"1", "0", "0", "0", "0", "0", "m", "s">>
        => duration = 65535

\* C7 as amended: parse_duration("100000ms") = 10000, below the ceiling
\* (1000000ms is a token that clamps to 65535); parse("2s") = 200,
\* parse("500ms") = 50 and parse("abc") fails.
C7_Amended ==
    pc = "returned" =>
        /\ argv[1] = <<"1", "0", "0", "0", "0", "0", "m", "s">>
              => duration = 10000
        /\ argv[1] = <<"1", "0", "0", "0", "0", "0", "0", "m", "s">>
              => duration = 65535
        /\ argv[1] = <<"2", "s">> => duration = 200
        /\ argv[1] = <<"5", "0", "0", "m", "s">> => duration = 50
        /\ argv[1] = <<"a", "b", "c">> => duration = -1

C7_Witness ==
    /\ pc = "returned"
    /\ argv[1] = <<"1", "0", "0", "0", "0", "0", "m", "s">>
    /\ duration = 10000

\* The sum of the decimal digits s[i..j-1] by their weights.
RECURSIVE RefSum(_, _, _)
RefSum(s, i, j) ==
    IF i >= j THEN 0
    ELSE DigitVal(s[i]) * 10^(j - 1 - i) + RefSum(s, i + 1, j)

\* Whether v is the integer parse of token s: the value of its leading
\* decimal digits after a sign, 0 without digits.  More than nine digits
\* may not fit an int, and say nothing.
IsIntegerParse(s, v) ==
    LET p == IF At(s, 1) \in {"+", "-"} THEN 2 ELSE 1
        e == Span(s, p, Digits)
    IN  \/ e - p > 9
        \/ v = IF At(s, 1) = "-" THEN -RefSum(s, p, e) ELSE RefSum(s, p, e)

\* C8: p never fails on the values of its arguments: it writes a report
\* with byte 2 = 1 if the integer parse of the first argument is nonzero
\* and 0 otherwise, byte 3 the integer parse of the second clamped to
\* [0,11], non-numeric text being 0, and bytes 4-8 = 0.
C8_PlayNeverFails ==
    Ran("p", 2) =>
        /\ stderr = <<>>
        /\ OneReport
        /\ status = IF Report.ret = 9 THEN 0 ELSE 1
        /\ IsIntegerParse(argv[2], play)
        /\ IsIntegerParse(argv[3], position)
        /\ Report.data[2] = IF play = 0 THEN 0 ELSE 1
        /\ Report.data[3] = IF position < 0 THEN 0
                            ELSE IF position > 11 THEN 11
                            ELSE position
        /\ \A k \in 4..8 : Report.data[k] = 0

\* blink p 1 12: a position above the range is brought back to 11.
C8_Witness ==
    /\ Ran("p", 2)
    /\ argv[2] = <<"1">>
    /\ argv[3] = <<"1", "2">>
    /\ status = 0
    /\ Report.data[3] = 11

\* A token made of a decimal number and a suffix: a sign, digits with a
\* point, at least one digit, then the rest.
RefNumber(s) ==
    LET p == IF At(s, 1) \in {"+", "-"} THEN 2 ELSE 1
        ie == Span(s, p, Digits)
        dot == At(s, ie) = "."
        fe == IF dot THEN Span(s, ie + 1, Digits) ELSE ie
        p0 == MIN(Span(s, p, {"0"}), ie)
    IN  [ neg |-> At(s, 1) = "-",
          digits |-> (fe - p) - (IF dot THEN 1 ELSE 0),
          \* the integer part, every value above 999999 as 1000000
          int |-> IF ie - p0 > 6 THEN 1000000 ELSE RefSum(s, p0, ie),
          \* the first two digits after the point
          f1 |-> IF fe > ie + 1 THEN DigitVal(s[ie + 1]) ELSE 0,
          f2 |-> IF fe > ie + 2 THEN DigitVal(s[ie + 2]) ELSE 0,
          suffix |-> Tail_(s, fe),
          end |-> fe ]

\* The tokens C9 is about: a decimal number where parse_duration reads the
\* same number (no exponent, no other notation), then a suffix.
IsDecimalToken(s) ==
    /\ RefNumber(s).digits >= 1
    /\ strtof(s).end = RefNumber(s).end

\* The duration of the claim: the number scaled by its suffix, what is
\* after the point of the scaled value dropped, clamped to [-1, 65535].
RefDuration(s) ==
    LET r == RefNumber(s)
        scaled == IF r.suffix = <<>> THEN r.int
                  ELSE IF r.suffix = <<"s">> THEN r.int * 100 + r.f1 * 10 + r.f2
                  ELSE r.int \div 10
    IN  IF r.suffix \notin {<<>>, <<"s">>, <<"m", "s">>} THEN -1
        ELSE IF r.neg THEN (IF scaled >= 1 THEN -1 ELSE 0)
        ELSE IF scaled > 65535 THEN 65535
        ELSE scaled

\* C9: for a decimal value v and a suffix, parse_duration returns v
\* truncated (no suffix), v*100 (suffix s) or v/10 with the fraction
\* dropped (suffix ms), clamped to [-1, 65535], and -1 for another suffix.
C9_DurationBySuffix ==
    pc = "returned" /\ IsDecimalToken(argv[1])
        => duration = RefDuration(argv[1])

\* The channels of the defined colors.
DocumentedColors ==
    { <<<<"b", "l", "u", "e">>, 0, 0, 255>>,
      <<<<"c", "y", "a", "n">>, 0, 255, 255>>,
      <<<<"g", "r", "e", "e", "n">>, 0, 255, 0>>,
      <<<<"p", "u", "r", "p", "l", "e">>, 255, 0, 255>>,
      <<<<"r", "e", "d">>, 255, 0, 0>>,
      <<<<"w", "h", "i", "t", "e">>, 255, 255, 255>>,
      <<<<"y", "e", "l", "l", "o", "w">>, 255, 255, 0>> }

RefXDigitVal(c) ==
    CASE c \in Digits -> DigitVal(c)
      [] c \in {"a", "A"} -> 10
      [] c \in {"b", "B"} -> 11
      [] c \in {"c", "C"} -> 12
      [] c \in {"d", "D"} -> 13
      [] c \in {"e", "E"} -> 14
      [] c \in {"f", "F"} -> 15

\* The base-16 value of the digits s[i..j-1] by their weights.
RECURSIVE RefHex(_, _, _)
RefHex(s, i, j) ==
    IF i >= j THEN 0
    ELSE RefXDigitVal(s[i]) * 16^(j - 1 - i) + RefHex(s, i + 1, j)

AllXDigits(s) == \A i \in DOMAIN s : s[i] \in XDigits

\* C10: parse_color gives a defined color its value and 1 to 6
\* hexadecimal digits their base-16 value; it fails for the empty token,
\* for a token that ends in a character that is no hexadecimal digit and
\* for a value above 0xFFFFFF; a result other than -1 is in 0..0xFFFFFF
\* and is (R << 16) | (G << 8) | B of bytes 2-4; n red gives FF 00 00.
C10_ColorResolution ==
    "parse_color" \in calls /\ Len(argv) = 2 =>
        LET t == argv[2]
            named == \E d \in DocumentedColors : d[1] = t
            sig == Len(t) + 1 - MIN(Span(t, 1, {"0"}), Len(t) + 1)
        IN  /\ \A d \in DocumentedColors : d[1] = t =>
                  /\ rgb = d[2] * 65536 + d[3] * 256 + d[4]
                  /\ <<buf[2], buf[3], buf[4]>> = <<d[2], d[3], d[4]>>
            /\ Len(t) \in 1..6 /\ AllXDigits(t) => rgb = RefHex(t, 1, Len(t) + 1)
            /\ t = <<>> => rgb = -1
            /\ ~named /\ t # <<>> /\ t[Len(t)] \notin XDigits => rgb = -1
            /\ AllXDigits(t) /\ sig > 6 => rgb = -1
            /\ rgb # -1 =>
                  /\ rgb \in 0..16777215
                  /\ buf[2] * 65536 + buf[3] * 256 + buf[4] = rgb
            /\ buf[0] = 1
            /\ buf[1] = 110

\* blink n red has written 01 6e ff 00 00 00 00 00 00.
C10_Witness ==
    /\ Ran("n", 1)
    /\ argv[2] = <<"r", "e", "d">>
    /\ status = 0
    /\ Report.data = [i \in 0..8 |-> CASE i = 0 -> 1 [] i = 1 -> 110
                                       [] i = 2 -> 255 [] OTHER -> 0]

=============================================================================
